---- MODULE Spec2Model ----
\* Model of the persona engine of D4G (src/persona_analysis.py,
\* Persona_Analysis.process_Personas): the gift table is aggregated to one
\* summary row per account, the valued accounts are classified by six masked
\* assignments applied in order, unclassified rows are dropped, a colour group
\* is attached and the output files are written.  A run ends early, with the
\* exception re-raised, when a frame the code assigns a new column to is empty.
\* The pass of src/combined.py runs the engine, the campaign analysis and the
\* church analysis in one try block; the two latter are modelled by the ways
\* they can end.
\*
\* Numbers.  Amounts are integers.  A pandas float that can be fractional (a
\* quantile, the median) is kept as an exact fraction [n, d] with d > 0; the
\* fraction with d = 0 is NaN, and every comparison with NaN is false, as in
\* IEEE arithmetic.  Rounding of binary floating point is not modelled.

EXTENDS Integers, Sequences, FiniteSets, TLC

\* ------------------------------------------------------------------ bounds
NumAccounts == 3
MaxRecords == 2
MaxRuns == 2
MaxTicks == 1

\* --------------------------------------------------------------- constants
\* The missing value of an integer column (NaT year, NaN dormancy).
NaN == 999999

\* The wall-clock year of the run (datetime.datetime.now().year).
ThisYear == 2025

\* The close years selected for the this_year_* and the prev_year_* columns.
ThisYearLiteral == 2024

PrevYearLiteral == 2023

Ids == 1 .. NumAccounts

\* Amounts of a gift record; negative amounts are adjustments.
AmountSeq == << -100, 100, 500 >>

\* Close years of a gift record; NaN is a gift without a close date.
YearSeq == << NaN, ThisYear, ThisYear - 1 >>

\* The amounts and close years of the boundary examples: one positive gift per
\* account, dormancy 1, 3 or 5.
BoundaryAmounts == { 100, 500, 5000 }

BoundaryYears == { ThisYear - 1, ThisYear - 3, ThisYear - 5 }

\* The close years of the input of a repeated run: dormancy 0 or 1.
RerunYears == { ThisYear, ThisYear - 1 }

PersonaNames == << "Gary", "Yara", "Ryan", "Laura", "Peter", "Beth" >>

Personas == { PersonaNames[k] : k \in 1 .. 6 }

VARIABLES
    clock,      \* datetime.datetime.now().year
    opp,        \* the rows of d4g_opportunity.csv: AccountId, Amount, Close_Year
    pc,         \* position in process_Personas
    rule,       \* number of classification rules applied so far
    account,    \* the summary table, one row per AccountId
    y,          \* the recency table
    df_value,   \* the valued accounts, with persona and group
    df_none,    \* the potential accounts
    thr,        \* amount_q33, amount_q67, dormancy_median
    files,      \* the output folder
    runs,       \* number of the run of the engine over this input
    prev,       \* history: the thresholds and valued accounts of the last run
    stage,      \* position in the pass of combined.py
    inputs,     \* what the pass finds: the result of each validation and the
                \* way the campaign and the church processing end
    log,        \* the error and progress messages logged in the pass
    seen,       \* what process_campaign read from d4g_value_output.csv
    pdf,        \* the shared PDF report and the logging system
    gui         \* run_analysis_gui: the folders selected, the folders
                \* combined.py was given, the dialog shown

vars ==
    << clock, opp, pc, rule, account, y, df_value, df_none, thr, files, runs,
       prev, stage, inputs, log, seen, pdf, gui >>

\* ------------------------------------------------------------- arithmetic
IsNaN(x) == x = NaN

NaNQ == [n |-> 0, d |-> 0]

IsNaNQ(q) == q.d = 0

\* x < q, x <= q, x > q, x >= q for an integer column value x and a fraction q.
LtQ(x, q) == ~IsNaN(x) /\ ~IsNaNQ(q) /\ x * q.d < q.n
LeQ(x, q) == ~IsNaN(x) /\ ~IsNaNQ(q) /\ x * q.d <= q.n
GtQ(x, q) == ~IsNaN(x) /\ ~IsNaNQ(q) /\ x * q.d > q.n
GeQ(x, q) == ~IsNaN(x) /\ ~IsNaNQ(q) /\ x * q.d >= q.n

SetMin(S) == CHOOSE m \in S : \A x \in S : m <= x
SetMax(S) == CHOOSE m \in S : \A x \in S : m >= x

RECURSIVE SeqSum(_)
SeqSum(s) == IF s = << >> THEN 0 ELSE Head(s) + SeqSum(Tail(s))

\* The values of a column, NaN skipped, in ascending order.
RECURSIVE SortedValues(_, _)
SortedValues(f, D) ==
    LET live == { i \in D : ~IsNaN(f[i]) }
    IN  IF live = {} THEN << >>
        ELSE LET m == SetMin({ f[i] : i \in live })
                 i0 == CHOOSE i \in live : f[i] = m
             IN  << m >> \o SortedValues(f, live \ {i0})

\* Quantile without interpolation: the order statistic below the position
\* (interpolation='lower').
QuantileLower(s, p) ==
    IF s = << >> THEN NaNQ
    ELSE [n |-> 100 * s[((p * (Len(s) - 1)) \div 100) + 1], d |-> 100]

\* Series.quantile(p/100): linear interpolation at position p*(n-1)/100.
Quantile(s, p) ==
    IF s = << >> THEN NaNQ
    ELSE LET n == Len(s)
             pos == p * (n - 1)
             i == pos \div 100
             g == pos % 100
             lo == s[i + 1]
             hi == IF g = 0 THEN lo ELSE s[i + 2]
         IN  [n |-> 100 * lo + g * (hi - lo), d |-> 100]

\* Series.median(): NaN skipped, the mean of the two middle values.
Median(s) ==
    IF s = << >> THEN NaNQ
    ELSE LET n == Len(s)
         IN  [n |-> s[(n + 1) \div 2] + s[(n + 2) \div 2], d |-> 2]

\* ------------------------------------------------------------ input tables
NumKinds == NumAccounts * Len(AmountSeq) * Len(YearSeq)

\* The k-th kind of gift record.
Kind(k) ==
    LET la == Len(AmountSeq)
        ly == Len(YearSeq)
    IN  [AccountId |-> ((k - 1) \div (la * ly)) + 1,
         Amount |-> AmountSeq[(((k - 1) \div ly) % la) + 1],
         Close_Year |-> YearSeq[((k - 1) % ly) + 1]]

\* A table of n rows, written as the list of the kinds of its rows.  The
\* order of the rows of the file changes nothing that is computed from it, so
\* one list per multiset of kinds is enough.
IsKindList(s) == \A i \in DOMAIN s : \A j \in DOMAIN s : i < j => s[i] <= s[j]

TableOf(s) == [i \in DOMAIN s |-> Kind(s[i])]

\* The gift records of the summary examples: amounts below, at and above zero,
\* close dates missing, in the year after the run, in its year and in the year
\* before, for the first and the last account.
SummaryAmountSeq == << -100, 0, 100 >>

SummaryYearSeq == << NaN, ThisYear + 1, ThisYear, ThisYear - 1 >>

SummaryIdSeq == << 1, NumAccounts >>

NumSummaryKinds == Len(SummaryIdSeq) * Len(SummaryAmountSeq) * Len(SummaryYearSeq)

SummaryKind(k) ==
    LET la == Len(SummaryAmountSeq)
        ly == Len(SummaryYearSeq)
    IN  [AccountId |-> SummaryIdSeq[((k - 1) \div (la * ly)) + 1],
         Amount |-> SummaryAmountSeq[(((k - 1) \div ly) % la) + 1],
         Close_Year |-> SummaryYearSeq[((k - 1) % ly) + 1]]

SummaryTableOf(s) == [i \in DOMAIN s |-> SummaryKind(s[i])]

\* The table with one gift for each account of S, in the order of the ids.
RECURSIVE OneGiftEach(_, _, _)
OneGiftEach(S, am, yr) ==
    IF S = {} THEN << >>
    ELSE LET id == SetMin(S)
         IN  << [AccountId |-> id, Amount |-> am[id], Close_Year |-> yr[id]] >>
             \o OneGiftEach(S \ {id}, am, yr)

\* The account roster (d4g_account.csv, column Id): account 0 has no gift,
\* account NumAccounts has gifts and is not on the roster.
Roster == 0 .. (NumAccounts - 1)

\* The rows of d4g_account.csv, one per account of the roster.
RosterRows == [i \in 1 .. NumAccounts |-> i - 1]

\* A further account of the gift table, a regular donor whose gifts were all
\* refunded: one gift of 100 in each year from ThisYear - first back to
\* ThisYear - 5 and one undated adjustment that brings its amount_total to 0.
\* With first = 0 it has a positive gift in every year of the recency window,
\* with first = 1 in every year but the current one.
RegularId == NumAccounts + 1

RegularDonor(first) ==
    [i \in 1 .. (6 - first) |->
        [AccountId |-> RegularId, Amount |-> 100,
         Close_Year |-> ThisYear - first - (i - 1)]]
    \o << [AccountId |-> RegularId, Amount |-> (0 - 100) * (6 - first),
           Close_Year |-> NaN] >>

\* The gift tables the runs start from hold the rows of the bounded table and
\* those of the regular donor, or no regular donor at all.
Regulars == { << >>, RegularDonor(1), RegularDonor(0) }

\* ------------------------------------------------------------ aggregation
\* opp[opp[opp_id] == id]
RowsOf(t, id) == SelectSeq(t, LAMBDA r : r.AccountId = id)

Column(rows, c) == [i \in DOMAIN rows |-> rows[i][c]]

Range(s) == { s[i] : i \in DOMAIN s }

\* groupby(opp_id).agg({'Close_Year': 'min'}): NaN is skipped, and the result
\* is NaN when no row of the group has a year.
AggMin(rows, c) ==
    LET v == Range(Column(rows, c)) \ {NaN}
    IN  IF v = {} THEN NaN ELSE SetMin(v)

AggMax(rows, c) ==
    LET v == Range(Column(rows, c)) \ {NaN}
    IN  IF v = {} THEN NaN ELSE SetMax(v)

AggSum(rows, c) == SeqSum(Column(rows, c))

\* The row of a3: the mean, kept as the fraction sum / count.
AggMean(rows, c) == [n |-> AggSum(rows, c), d |-> Len(rows)]

\* agg({'Close_Month': 'count'}): the rows of the group whose close date is set
\* (Close_Month and Close_Year come from the same CloseDate).
AggCount(rows) == Len(SelectSeq(rows, LAMBDA r : ~IsNaN(r.Close_Year)))

\* a10: the rows with Amount > 0, counted per account; the left merge leaves
\* NaN for an account that is not in a10.
NonZeroCounts(t, id) ==
    LET pos == SelectSeq(RowsOf(t, id), LAMBDA r : r.Amount > 0)
    IN  IF pos = << >> THEN NaN ELSE AggCount(pos)

\* opp[opp['Close_Year'] == yr], for one account.
InYear(rows, yr) == SelectSeq(rows, LAMBDA r : r.Close_Year = yr)

\* a11 and a14, a12 and a15, a13 and a16: count, sum and mean over the rows of
\* one close year; the left merge leaves NaN for an account without such a row.
YearCount(rows, yr) ==
    IF InYear(rows, yr) = << >> THEN NaN ELSE AggCount(InYear(rows, yr))

YearTotal(rows, yr) ==
    IF InYear(rows, yr) = << >> THEN NaN ELSE AggSum(InYear(rows, yr), "Amount")

YearMean(rows, yr) ==
    IF InYear(rows, yr) = << >> THEN NaNQ ELSE AggMean(InYear(rows, yr), "Amount")

\* a1 .. a16 merged on AccountId: one row per AccountId of opp.
Summary(t) ==
    LET ids == { t[i].AccountId : i \in DOMAIN t }
    IN  [id \in ids |->
            LET rows == RowsOf(t, id)
            IN  [amount_min |-> AggMin(rows, "Amount"),
                 amount_max |-> AggMax(rows, "Amount"),
                 amount_mean |-> AggMean(rows, "Amount"),
                 amount_total |-> AggSum(rows, "Amount"),
                 start_year |-> AggMin(rows, "Close_Year"),
                 latest_year |-> AggMax(rows, "Close_Year"),
                 non_zero_counts |-> NonZeroCounts(t, id),
                 this_year_non_zero_counts |-> YearCount(rows, ThisYearLiteral),
                 this_year_amount_total |-> YearTotal(rows, ThisYearLiteral),
                 this_year_amount_mean |-> YearMean(rows, ThisYearLiteral),
                 prev_year_non_zero_counts |-> YearCount(rows, PrevYearLiteral),
                 prev_year_amount_total |-> YearTotal(rows, PrevYearLiteral),
                 prev_year_amount_mean |-> YearMean(rows, PrevYearLiteral)]]

\* now - column, NaN kept.
YearsSince(now, yr) == IF IsNaN(yr) THEN NaN ELSE now - yr

\* column / account_age, kept as a fraction; NaN when either side is NaN.  An
\* account_age of 0 is not treated apart: the fraction has d = 0, the float is
\* inf, -inf or (for 0 / 0) NaN.
Per(x, age) == IF IsNaN(x) \/ IsNaN(age) THEN NaNQ ELSE [n |-> x, d |-> age]

\* account_age, dormancy_years and the two averages.
Features(a, now) ==
    [id \in DOMAIN a |->
        LET age == YearsSince(now, a[id].start_year)
        IN  [amount_min |-> a[id].amount_min,
             amount_max |-> a[id].amount_max,
             amount_mean |-> a[id].amount_mean,
             amount_total |-> a[id].amount_total,
             start_year |-> a[id].start_year,
             latest_year |-> a[id].latest_year,
             non_zero_counts |-> a[id].non_zero_counts,
             this_year_non_zero_counts |-> a[id].this_year_non_zero_counts,
             this_year_amount_total |-> a[id].this_year_amount_total,
             this_year_amount_mean |-> a[id].this_year_amount_mean,
             prev_year_non_zero_counts |-> a[id].prev_year_non_zero_counts,
             prev_year_amount_total |-> a[id].prev_year_amount_total,
             prev_year_amount_mean |-> a[id].prev_year_amount_mean,
             account_age |-> age,
             dormancy_years |-> YearsSince(now, a[id].latest_year),
             average_total_donation |-> Per(a[id].amount_total, age),
             average_time_between_donation |-> Per(a[id].non_zero_counts, age)]]

\* -------------------------------------------------------------- recency
Window(now) == { now - i : i \in 0 .. 5 }

\* y1 of one loop turn: the accounts with a positive gift in calc_year.
TimesDonated(t, id, yr) ==
    Len(SelectSeq(RowsOf(t, id), LAMBDA r : r.Close_Year = yr /\ r.Amount > 0))

RECURSIVE SumOver(_, _)
SumOver(f, S) ==
    IF S = {} THEN 0
    ELSE LET x == CHOOSE x \in S : TRUE
         IN  f[x] + SumOver(f, S \ {x})

\* The years of the window in which no account has a positive gift: y1 is an
\* empty frame in that loop turn.
EmptyYears(t, now) ==
    { w \in Window(now) :
        \A i \in DOMAIN t : ~(t[i].Close_Year = w /\ t[i].Amount > 0) }

\* The appended frames without fillna(0): the cells of the other years stay
\* missing.
RecencyTableNoFill(t, now) ==
    LET ids == { t[i].AccountId : i \in DOMAIN t }
        cells == { c \in ids \X Window(now) : TimesDonated(t, c[1], c[2]) > 0 }
        flags(c) == [w \in Window(now) |-> IF w = c[2] THEN 1 ELSE NaN]
    IN  { [AccountId |-> c[1],
           times_donated |->
               [w \in Window(now) |->
                   IF w = c[2] THEN TimesDonated(t, c[1], c[2]) ELSE NaN],
           flag_donated |-> flags(c),
           last_5_non0_years |-> SumOver(flags(c), Window(now))] : c \in cells }

\* y: the six y1 frames appended row-wise (one row per account and year with
\* a positive gift), the missing cells filled with 0, and last_5_non0_years the
\* sum of the six flag columns of the row.
RecencyTable(t, now) ==
    LET ids == { t[i].AccountId : i \in DOMAIN t }
        cells == { c \in ids \X Window(now) : TimesDonated(t, c[1], c[2]) > 0 }
        flags(c) == [w \in Window(now) |-> IF w = c[2] THEN 1 ELSE 0]
    IN  { [AccountId |-> c[1],
           times_donated |->
               [w \in Window(now) |->
                   IF w = c[2] THEN TimesDonated(t, c[1], c[2]) ELSE 0],
           flag_donated |-> flags(c),
           last_5_non0_years |-> SumOver(flags(c), Window(now))] : c \in cells }

\* ------------------------------------------------------- classification
Restrict(f, S) == [x \in S |-> f[x]]

EmptyTable == << >>

\* Series.rank(pct=True) of the row id of column f over the rows D: the
\* average of the ranks of the rows that tie with it (method='average'),
\* divided by the number of rows with a value; NaN for a row without a value.
PctRank(f, D, id) ==
    IF IsNaN(f[id]) THEN NaNQ
    ELSE LET live == { i \in D : ~IsNaN(f[i]) }
             below == Cardinality({ i \in live : f[i] < f[id] })
             equal == Cardinality({ i \in live : f[i] = f[id] })
         IN  [n |-> 2 * below + equal + 1, d |-> 2 * Cardinality(live)]

\* The split that keeps every account among the valued ones.
ValueRowsAll(a) ==
    LET ids == DOMAIN a
        col(c) == [id \in ids |-> a[id][c]]
    IN  [id \in ids |->
            a[id] @@ [persona |-> "NaN", group |-> "NaN",
                      amount_total_percentiles |->
                          PctRank(col("amount_total"), ids, id),
                      non_zero_counts_percentiles |->
                          PctRank(col("non_zero_counts"), ids, id),
                      dormancy_years_percentiles |->
                          PctRank(col("dormancy_years"), ids, id)]]

\* account[account['amount_total'] > 0], with the three percentile columns
\* and the persona column set to NaN.  The group column, created by the first
\* colour assignment, is carried as NaN from here on.
ValueRows(a) ==
    LET ids == { id \in DOMAIN a : a[id].amount_total > 0 }
        col(c) == [id \in ids |-> a[id][c]]
    IN  [id \in ids |->
            a[id] @@ [persona |-> "NaN", group |-> "NaN",
                      amount_total_percentiles |->
                          PctRank(col("amount_total"), ids, id),
                      non_zero_counts_percentiles |->
                          PctRank(col("non_zero_counts"), ids, id),
                      dormancy_years_percentiles |->
                          PctRank(col("dormancy_years"), ids, id)]]

\* account[account['amount_total'] <= 0]
NoneRows(a) == Restrict(a, { id \in DOMAIN a : a[id].amount_total <= 0 })

ColumnOf(t, c) == [id \in DOMAIN t |-> t[id][c]]

\* The thresholds with the upper quantile taken at 0.66.
ThresholdsTypo(v) ==
    [q33 |-> Quantile(SortedValues(ColumnOf(v, "amount_total"), DOMAIN v), 33),
     q67 |-> Quantile(SortedValues(ColumnOf(v, "amount_total"), DOMAIN v), 66),
     median |-> Median(SortedValues(ColumnOf(v, "dormancy_years"), DOMAIN v))]

\* The thresholds taken over the valued accounts and the rows an earlier run
\* left in d4g_value_output.csv.
ThresholdsStale(v) ==
    LET D == ({1} \X DOMAIN v) \cup ({2} \X DOMAIN files.value)
        row(c) == IF c[1] = 1 THEN v[c[2]] ELSE files.value[c[2]]
        am == [c \in D |-> row(c).amount_total]
        dy == [c \in D |-> row(c).dormancy_years]
    IN  [q33 |-> Quantile(SortedValues(am, D), 33),
         q67 |-> Quantile(SortedValues(am, D), 67),
         median |-> Median(SortedValues(dy, D))]

\* amount_q33, amount_q67 and dormancy_median of the valued accounts.
Thresholds(v) ==
    [q33 |-> Quantile(SortedValues(ColumnOf(v, "amount_total"), DOMAIN v), 33),
     q67 |-> Quantile(SortedValues(ColumnOf(v, "amount_total"), DOMAIN v), 67),
     median |-> Median(SortedValues(ColumnOf(v, "dormancy_years"), DOMAIN v))]

\* The masks with half-open amount bands: the low band is A < q33.
RuleCondHalfOpen(k, A, D, t) ==
    CASE k = 1 -> GeQ(A, t.q67) /\ LtQ(D, t.median)
      [] k = 2 -> LtQ(A, t.q33) /\ LtQ(D, t.median)
      [] k = 3 -> GeQ(A, t.q33) /\ LtQ(A, t.q67) /\ LtQ(D, t.median)
      [] k = 4 -> GeQ(A, t.q67) /\ GeQ(D, t.median)
      [] k = 5 -> GeQ(A, t.q33) /\ LtQ(A, t.q67) /\ GeQ(D, t.median)
      [] k = 6 -> LtQ(A, t.q33) /\ GeQ(D, t.median)

\* The masks with the median on the low-dormancy side: D <= median is low.
RuleCondMedianLow(k, A, D, t) ==
    CASE k = 1 -> GeQ(A, t.q67) /\ LeQ(D, t.median)
      [] k = 2 -> LeQ(A, t.q33) /\ LeQ(D, t.median)
      [] k = 3 -> GtQ(A, t.q33) /\ LtQ(A, t.q67) /\ LeQ(D, t.median)
      [] k = 4 -> GeQ(A, t.q67) /\ GtQ(D, t.median)
      [] k = 5 -> GtQ(A, t.q33) /\ LtQ(A, t.q67) /\ GtQ(D, t.median)
      [] k = 6 -> LeQ(A, t.q33) /\ GtQ(D, t.median)

\* The mask of the k-th assignment, for amount_total A and dormancy_years D.
RuleCond(k, A, D, t) ==
    CASE k = 1 -> GeQ(A, t.q67) /\ LtQ(D, t.median)
      [] k = 2 -> LeQ(A, t.q33) /\ LtQ(D, t.median)
      [] k = 3 -> GtQ(A, t.q33) /\ LtQ(A, t.q67) /\ LtQ(D, t.median)
      [] k = 4 -> GeQ(A, t.q67) /\ GeQ(D, t.median)
      [] k = 5 -> GtQ(A, t.q33) /\ LtQ(A, t.q67) /\ GeQ(D, t.median)
      [] k = 6 -> LeQ(A, t.q33) /\ GeQ(D, t.median)

\* The assignment that keeps a persona once set: the first match wins.
AssignPersonaFirst(v, k, t) ==
    [id \in DOMAIN v |->
        IF /\ v[id].persona = "NaN"
           /\ RuleCond(k, v[id].amount_total, v[id].dormancy_years, t)
        THEN [v[id] EXCEPT !.persona = PersonaNames[k]]
        ELSE v[id]]

\* The assignment with a Gary mask that also asks for two or more gifts.
AssignPersonaFrequent(v, k, t) ==
    [id \in DOMAIN v |->
        IF /\ RuleCond(k, v[id].amount_total, v[id].dormancy_years, t)
           /\ k = 1 => (~IsNaN(v[id].non_zero_counts) /\ v[id].non_zero_counts >= 2)
        THEN [v[id] EXCEPT !.persona = PersonaNames[k]]
        ELSE v[id]]

\* df_value.loc[mask_k, 'persona'] = name_k
AssignPersona(v, k, t) ==
    [id \in DOMAIN v |->
        IF RuleCond(k, v[id].amount_total, v[id].dormancy_years, t)
        THEN [v[id] EXCEPT !.persona = PersonaNames[k]]
        ELSE v[id]]

\* The first k of the six masked assignments, in their order.
RECURSIVE AssignPersonas(_, _, _)
AssignPersonas(v, k, t) ==
    IF k = 0 THEN v ELSE AssignPersona(AssignPersonas(v, k - 1, t), k, t)

\* Lines 138-260 over the gift table t in the year now: the thresholds and
\* the valued accounts with their personas.
Classify(t, now) ==
    LET v == ValueRows(Features(Summary(t), now))
    IN  [thr |-> Thresholds(v), rows |-> AssignPersonas(v, 6, Thresholds(v))]

\* astype(str): the missing persona becomes the string 'nan'.
AsStr(p) == IF p = "NaN" THEN "nan" ELSE p

\* The rows kept by the filter on persona.
Classified(v) ==
    LET w == [id \in DOMAIN v |-> [v[id] EXCEPT !.persona = AsStr(@)]]
    IN  Restrict(w, { id \in DOMAIN w : w[id].persona # "NaN" /\ w[id].persona # "nan" })

GroupNames == << "Gold", "Light Blue", "Green", "Purple", "Dark Blue", "Red" >>

\* The colour assignments with the last one left out.
RECURSIVE AssignGroupsShort(_, _)
AssignGroupsShort(v, k) ==
    IF k = 0 THEN v
    ELSE LET u == AssignGroupsShort(v, k - 1)
         IN  [id \in DOMAIN u |->
                 IF u[id].persona = PersonaNames[k] /\ k < 6
                 THEN [u[id] EXCEPT !.group = GroupNames[k]]
                 ELSE u[id]]

\* The six colour assignments, one per persona.
RECURSIVE AssignGroups(_, _)
AssignGroups(v, k) ==
    IF k = 0 THEN v
    ELSE LET u == AssignGroups(v, k - 1)
         IN  [id \in DOMAIN u |->
                 IF u[id].persona = PersonaNames[k]
                 THEN [u[id] EXCEPT !.group = GroupNames[k]]
                 ELSE u[id]]

\* The row of the merge for roster row r: the columns of acc and those of the
\* df_value row with the same id, or NaN in their place.
MergedRow(r, v) ==
    IF r \in DOMAIN v
    THEN [Id |-> r, matched |-> TRUE, persona |-> v[r].persona,
          group |-> v[r].group, amount_total |-> v[r].amount_total]
    ELSE [Id |-> r, matched |-> FALSE, persona |-> "NaN", group |-> "NaN",
          amount_total |-> NaN]

\* The merge with how='inner': the roster rows without a df_value row are
\* left out.
MergeRosterInner(v) ==
    SelectSeq([i \in 1 .. Len(RosterRows) |-> MergedRow(RosterRows[i], v)],
              LAMBDA m : m.matched)

\* acc.merge(df_value, left_on='Id', right_on=opp_id, how='left'): the rows
\* of the roster in their order, each with the df_value row of its id (there
\* is at most one, AccountId is the group key of the summary).
MergeRoster(v) ==
    [i \in 1 .. Len(RosterRows) |-> MergedRow(RosterRows[i], v)]

\* ---------------------------------------------------------------- actions
NoThresholds == [q33 |-> NaNQ, q67 |-> NaNQ, median |-> NaNQ]

\* The five files process_Personas writes.
PersonaOutputs == { "stat", "value", "potential", "merge", "state" }

NoFiles ==
    [written |-> {}, value |-> EmptyTable, potential |-> EmptyTable,
     merge |-> EmptyTable]

\* The inputs of a pass in which every validation succeeds and the campaign
\* and the church processing end normally.
ValidInputs == [persona |-> TRUE, campaign |-> "ok", church |-> "ok"]

\* validate_persona_inputs: the accounts file has the column
\* npo02__LastCloseDate__c or lacks it.
PersonaInputs == BOOLEAN

\* validate_campaign_inputs fails, or process_campaign ends normally or raises
\* an exception (it re-raises what it catches).
CampaignInputs == { "invalid", "ok", "raise" }

\* validate_church_inputs fails, or process_ChurchData ends normally, raises
\* an exception or raises SystemExit (a table that cannot be read).
ChurchInputs == { "invalid", "ok", "raise", "exit" }

\* process_campaign has not looked for d4g_value_output.csv, or has not
\* found it.
NotSeen == [read |-> FALSE, rows |-> EmptyTable]

\* combined.py line 96: the report is open; pdf.close() and log.shutdown()
\* have not been called.
OpenReport == [closes |-> 0, shutdowns |-> 0]

\* The folders of a run: the one that holds the user's input files and the
\* one for the results.
Folders == { "data", "results" }

\* combined.py started from the command line with the input folder and the
\* output folder as its two arguments (lines 16-18); no GUI takes part.
CommandLine ==
    [input_var |-> "none", output_var |-> "none", input_dir |-> "data",
     output_dir |-> "results", returncode |-> 0, dialog |-> "none"]

Blank ==
    /\ clock = ThisYear
    /\ pc = "start"
    /\ rule = 0
    /\ account = EmptyTable
    /\ y = {}
    /\ df_value = EmptyTable
    /\ df_none = EmptyTable
    /\ thr = NoThresholds
    /\ files = NoFiles
    /\ runs = 1
    /\ prev = [thr |-> NoThresholds, value |-> EmptyTable]
    /\ stage = "persona_run"
    /\ inputs = ValidInputs
    /\ log = {}
    /\ seen = NotSeen
    /\ pdf = OpenReport
    /\ gui = CommandLine

\* Any table of at most MaxRecords gift records.
Init ==
    /\ Blank
    /\ \E n \in 0 .. MaxRecords :
           \E s \in [1 .. n -> 1 .. NumKinds] :
               \E c \in Regulars :
                   IsKindList(s) /\ opp = TableOf(s) \o c

\* At most one positive gift per account, with the amounts and years of the
\* boundary examples.
InitBoundary ==
    /\ Blank
    /\ \E S \in SUBSET Ids :
           \E am \in [S -> BoundaryAmounts] :
               \E yr \in [S -> BoundaryYears] :
                   opp = OneGiftEach(S, am, yr) \o RegularDonor(0)

\* The input of a repeated run: at most one positive gift per account.
InitRerun ==
    /\ Blank
    /\ \E S \in SUBSET Ids :
           \E am \in [S -> BoundaryAmounts] :
               \E yr \in [S -> RerunYears] :
                   opp = OneGiftEach(S, am, yr) \o RegularDonor(0)

\* Any table of at most MaxRecords gift records of the summary examples, with
\* the regular donor.
InitSummary ==
    /\ Blank
    /\ \E n \in 0 .. MaxRecords :
           \E s \in [1 .. n -> 1 .. NumSummaryKinds] :
               IsKindList(s) /\ opp = SummaryTableOf(s) \o RegularDonor(0)

\* Lines 138-186: the per-account aggregates, merged into one table.
Aggregate ==
    /\ pc = "start"
    /\ account' = Summary(opp)
    /\ pc' = "aggregated"
    /\ UNCHANGED << clock, opp, rule, y, df_value, df_none, thr, files, runs, prev,
                 stage, inputs, log,
                 seen, pdf, gui >>

\* Lines 188-202: the recency table.  The flag assignment of line 194 on an
\* empty y1 frame raises ValueError, which ends process_Personas (lines
\* 465-470).
Recency ==
    /\ pc = "aggregated"
    /\ IF EmptyYears(opp, clock) # {}
       THEN y' = y /\ pc' = "failed"
       ELSE y' = RecencyTable(opp, clock) /\ pc' = "recency"
    /\ UNCHANGED << clock, opp, rule, account, df_value, df_none, thr, files, runs, prev,
                 stage, inputs, log,
                 seen, pdf, gui >>

\* Lines 210-216: account_age, dormancy_years and the averages.
AddFeatures ==
    /\ pc = "recency"
    /\ account' = Features(account, clock)
    /\ pc' = "features"
    /\ UNCHANGED << clock, opp, rule, y, df_value, df_none, thr, files, runs, prev,
                 stage, inputs, log,
                 seen, pdf, gui >>

\* Lines 219-239: the valued and the potential accounts, and the thresholds.
Split ==
    /\ pc = "features"
    /\ df_value' = ValueRows(account)
    /\ df_none' = NoneRows(account)
    /\ thr' = Thresholds(ValueRows(account))
    /\ rule' = 0
    /\ pc' = "classify"
    /\ UNCHANGED << clock, opp, account, y, files, runs, prev,
                 stage, inputs, log,
                 seen, pdf, gui >>

\* Lines 245-260: the next of the six masked assignments.
ApplyRule ==
    /\ pc = "classify"
    /\ rule < 6
    /\ df_value' = AssignPersona(df_value, rule + 1, thr)
    /\ rule' = rule + 1
    /\ pc' = IF rule + 1 = 6 THEN "classified" ELSE "classify"
    /\ UNCHANGED << clock, opp, account, y, df_none, thr, files, runs, prev,
                 stage, inputs, log,
                 seen, pdf, gui >>

\* Lines 263-265: the rows without a persona are removed.
DropUnclassified ==
    /\ pc = "classified"
    /\ df_value' = Classified(df_value)
    /\ pc' = "filtered"
    /\ UNCHANGED << clock, opp, rule, account, y, df_none, thr, files, runs, prev,
                 stage, inputs, log,
                 seen, pdf, gui >>

\* Lines 270-285: the colour group of each persona.  The first assignment
\* creates the group column; on a df_value without rows it raises ValueError,
\* which ends process_Personas (lines 465-470).
ColorGroup ==
    /\ pc = "filtered"
    /\ IF DOMAIN df_value = {}
       THEN df_value' = df_value /\ pc' = "failed"
       ELSE df_value' = AssignGroups(df_value, 6) /\ pc' = "grouped"
    /\ UNCHANGED << clock, opp, rule, account, y, df_none, thr, files, runs, prev,
                 stage, inputs, log,
                 seen, pdf, gui >>

\* The output files without d4g_value_output.csv.
WriteOutputsNoValue ==
    /\ pc = "grouped"
    /\ files' = [written |-> files.written \cup (PersonaOutputs \ { "value" }),
                 value |-> files.value,
                 potential |-> df_none,
                 merge |-> MergeRoster(df_value)]
    /\ pc' = "written"
    /\ UNCHANGED << clock, opp, rule, account, y, df_value, df_none, thr, runs, prev,
                 stage, inputs, log,
                 seen, pdf, gui >>

\* Lines 287-297: the merged roster and the output files.
WriteOutputs ==
    /\ pc = "grouped"
    /\ files' = [written |-> files.written \cup PersonaOutputs,
                 value |-> df_value,
                 potential |-> df_none,
                 merge |-> MergeRoster(df_value)]
    /\ pc' = "written"
    /\ UNCHANGED << clock, opp, rule, account, y, df_value, df_none, thr, runs, prev,
                 stage, inputs, log,
                 seen, pdf, gui >>

\* Lines 299-464: the report pages; the run ends with success.
Finish ==
    /\ pc = "written"
    /\ pc' = "done"
    /\ UNCHANGED << clock, opp, rule, account, y, df_value, df_none, thr, files, runs, prev,
                 stage, inputs, log,
                 seen, pdf, gui >>

\* A further run of the engine over the same input files and output folder:
\* a new process, so nothing but the files survives.
Rerun ==
    /\ pc = "done"
    /\ runs < MaxRuns
    /\ runs' = runs + 1
    /\ prev' = [thr |-> thr, value |-> df_value]
    /\ pc' = "start"
    /\ rule' = 0
    /\ account' = EmptyTable
    /\ y' = {}
    /\ df_value' = EmptyTable
    /\ df_none' = EmptyTable
    /\ thr' = NoThresholds
    /\ UNCHANGED << clock, opp, files, stage, inputs, log,
                 seen, pdf, gui >>

Next ==
    \/ Aggregate
    \/ Recency
    \/ AddFeatures
    \/ Split
    \/ ApplyRule
    \/ DropUnclassified
    \/ ColorGroup
    \/ WriteOutputs
    \/ Finish

Spec == Init /\ [][Next]_vars

SpecBoundary == InitBoundary /\ [][Next]_vars

SpecSummary == InitSummary /\ [][Next]_vars

NextRerun == Next \/ Rerun

\* ------------------------------------------------------- the wall clock
\* A run that may see the year change: gifts of 100 of the current year or the
\* year before, with the regular donor.
InitClock ==
    /\ Blank
    /\ \E S \in SUBSET Ids :
           \E yr \in [S -> RerunYears] :
               opp = OneGiftEach(S, [id \in S |-> 100], yr) \o RegularDonor(0)

\* The year changes while process_Personas runs: every
\* datetime.datetime.now().year after it (lines 192, 201, 210, 212) returns
\* the new year.
Tick ==
    /\ pc \notin { "done", "failed" }
    /\ clock < ThisYear + MaxTicks
    /\ clock' = clock + 1
    /\ UNCHANGED << opp, pc, rule, account, y, df_value, df_none, thr, files,
                    runs, prev, stage, inputs, log,
                 seen, pdf, gui >>

NextClock == Next \/ Tick

SpecClock == InitClock /\ [][NextClock]_vars

\* --------------------------------------------------- the pass of combined.py
\* A pass over a small gift table, for every result of the validations and
\* every way the campaign and the church processing can end.
InitPass ==
    /\ clock = ThisYear
    /\ pc = "idle"
    /\ rule = 0
    /\ account = EmptyTable
    /\ y = {}
    /\ df_value = EmptyTable
    /\ df_none = EmptyTable
    /\ thr = NoThresholds
    /\ files = NoFiles
    /\ runs = 1
    /\ prev = [thr |-> NoThresholds, value |-> EmptyTable]
    /\ stage = "persona"
    /\ log = {}
    /\ seen = NotSeen
    /\ pdf = OpenReport
    /\ gui = CommandLine
    /\ inputs \in [persona : PersonaInputs, campaign : CampaignInputs,
                    church : ChurchInputs]
    /\ \E S \in SUBSET Ids :
           \E c \in Regulars :
               opp = OneGiftEach(S, [id \in S |-> 100], [id \in S |-> ThisYear]) \o c

\* combined.py lines 99-103: the persona inputs are validated; process_Personas
\* is called, or the missing column is logged and the analysis skipped.
ValidatePersona ==
    /\ stage = "persona"
    /\ IF inputs.persona
       THEN /\ pc' = "start"
            /\ stage' = "persona_run"
            /\ log' = log \cup { "persona: validated" }
       ELSE /\ pc' = pc
            /\ stage' = "campaign"
            /\ log' = log \cup { "persona: d4g_account.csv is missing npo02__LastCloseDate__c",
                                  "persona: skipped" }
    /\ UNCHANGED << clock, opp, rule, account, y, df_value, df_none, thr, files,
                    runs, prev, inputs,
                    seen, pdf, gui >>

\* process_Personas returns, or the exception it re-raises (lines 465-470)
\* leaves the try block of combined.py.
PersonaReturns ==
    /\ stage = "persona_run"
    /\ pc \in { "done", "failed" }
    /\ IF pc = "done"
       THEN stage' = "campaign" /\ log' = log \cup { "persona: completed" }
       ELSE stage' = "except" /\ log' = log \cup { "persona: failed" }
    /\ UNCHANGED << clock, opp, pc, rule, account, y, df_value, df_none, thr,
                    files, runs, prev, inputs,
                    seen, pdf, gui >>

\* email_campaign_analysis.py lines 465-478: the persona data is read from
\* d4g_value_output.csv of the output folder when that file exists, whatever
\* run wrote it, and its AccountId and persona columns are merged in.
ReadPersonas(f) ==
    IF "value" \in f.written
    THEN [read |-> TRUE, rows |-> [id \in DOMAIN f.value |-> f.value[id].persona]]
    ELSE NotSeen

\* combined.py lines 105-109: the campaign analysis.  An exception of
\* process_campaign may be raised before or after the persona data is read.
Campaign ==
    /\ stage = "campaign"
    /\ CASE inputs.campaign = "invalid" ->
               /\ stage' = "church"
               /\ log' = log \cup { "campaign: validation failed", "campaign: skipped" }
               /\ seen' = seen
         [] inputs.campaign = "ok" ->
               /\ stage' = "church"
               /\ log' = log \cup { "campaign: validated", "campaign: started",
                                     "campaign: completed" }
               /\ seen' = ReadPersonas(files)
         [] inputs.campaign = "raise" ->
               /\ stage' = "except"
               /\ log' = log \cup { "campaign: validated", "campaign: started",
                                     "campaign: failed" }
               /\ seen' \in { seen, ReadPersonas(files) }
    /\ UNCHANGED << clock, opp, pc, rule, account, y, df_value, df_none, thr,
                    files, runs, prev, inputs, pdf, gui >>

\* The church analysis with a SystemExit that ends the process at once,
\* without the finally clause.
ChurchExitsAtOnce ==
    /\ stage = "church"
    /\ CASE inputs.church = "invalid" ->
               /\ stage' = "finally"
               /\ log' = log \cup { "church: validation failed", "church: skipped" }
         [] inputs.church = "ok" ->
               /\ stage' = "finally"
               /\ log' = log \cup { "church: validated", "church: started",
                                     "church: completed" }
         [] inputs.church = "raise" ->
               /\ stage' = "except"
               /\ log' = log \cup { "church: validated", "church: started",
                                     "church: failed" }
         [] inputs.church = "exit" ->
               /\ stage' = "end"
               /\ log' = log \cup { "church: validated", "church: started",
                                     "church: SystemExit" }
    /\ UNCHANGED << clock, opp, pc, rule, account, y, df_value, df_none, thr,
                    files, runs, prev, inputs,
                    seen, pdf, gui >>

\* combined.py lines 111-115: the church analysis.  SystemExit is not an
\* Exception: it passes the except clause and reaches the finally clause.
Church ==
    /\ stage = "church"
    /\ CASE inputs.church = "invalid" ->
               /\ stage' = "finally"
               /\ log' = log \cup { "church: validation failed", "church: skipped" }
         [] inputs.church = "ok" ->
               /\ stage' = "finally"
               /\ log' = log \cup { "church: validated", "church: started",
                                     "church: completed" }
         [] inputs.church = "raise" ->
               /\ stage' = "except"
               /\ log' = log \cup { "church: validated", "church: started",
                                     "church: failed" }
         [] inputs.church = "exit" ->
               /\ stage' = "finally"
               /\ log' = log \cup { "church: validated", "church: started",
                                     "church: SystemExit" }
    /\ UNCHANGED << clock, opp, pc, rule, account, y, df_value, df_none, thr,
                    files, runs, prev, inputs,
                    seen, pdf, gui >>

\* combined.py lines 116-119: the exception is logged and written to
\* error_summary.txt.
Except ==
    /\ stage = "except"
    /\ files' = [files EXCEPT !.written = @ \cup { "error_summary" }]
    /\ log' = log \cup { "Critical error" }
    /\ stage' = "finally"
    /\ UNCHANGED << clock, opp, pc, rule, account, y, df_value, df_none, thr,
                    runs, prev, inputs,
                    seen, pdf, gui >>

\* combined.py lines 120-122: the report is closed and the pass ends.
Finally ==
    /\ stage = "finally"
    /\ pdf' = [closes |-> pdf.closes + 1, shutdowns |-> pdf.shutdowns + 1]
    /\ stage' = "end"
    /\ UNCHANGED << clock, opp, pc, rule, account, y, df_value, df_none, thr,
                    files, runs, prev, inputs, log, seen, gui >>

NextPass ==
    \/ Next
    \/ ValidatePersona
    \/ PersonaReturns
    \/ Campaign
    \/ Church
    \/ Except
    \/ Finally

SpecPass == InitPass /\ [][NextPass]_vars

SpecRerun == InitRerun /\ [][NextRerun]_vars

\* ------------------------------------------- passes into one output folder
\* The first of several passes of combined.py into the same output folder:
\* every account gives 100 this year, with or without the regular donor whose
\* gifts fill the six window years.
InitPasses ==
    /\ InitPass
    /\ \E c \in { <<>>, RegularDonor(0) } :
           opp = OneGiftEach(Ids, [id \in Ids |-> 100], [id \in Ids |-> ThisYear]) \o c

\* combined.py is started again with the same output folder (lines 16-18 and
\* 28-30: an existing folder is used as it is, nothing in it is removed but a
\* log file of the same minute).  The process is new: only the files of the
\* folder survive.  The input files may have changed.
NewPass ==
    /\ stage = "end"
    /\ runs < MaxRuns
    /\ runs' = runs + 1
    /\ pc' = "idle"
    /\ rule' = 0
    /\ account' = EmptyTable
    /\ y' = {}
    /\ df_value' = EmptyTable
    /\ df_none' = EmptyTable
    /\ thr' = NoThresholds
    /\ stage' = "persona"
    /\ log' = {}
    /\ seen' = NotSeen
    /\ pdf' = OpenReport
    /\ inputs' \in [persona : PersonaInputs, campaign : CampaignInputs,
                     church : ChurchInputs]
    /\ UNCHANGED << clock, opp, files, prev, gui >>

NextPasses == NextPass \/ NewPass

SpecPasses == InitPasses /\ [][NextPasses]_vars

\* ------------------------------------------------------------ the GUI
\* What combined.py finds in a folder that holds none of the input files:
\* every validation fails.
NoInputs == [persona |-> FALSE, campaign |-> "invalid", church |-> "invalid"]

\* run_analysis_gui.py lines 33-59 and 101-102: the user has selected an
\* input folder and an output folder, the same folder or two; the input files
\* are in the folder "data".  Nothing has been launched.
InitGui ==
    /\ clock = ThisYear
    /\ opp = OneGiftEach(Ids, [id \in Ids |-> 100], [id \in Ids |-> ThisYear])
                 \o RegularDonor(0)
    /\ pc = "idle"
    /\ rule = 0
    /\ account = EmptyTable
    /\ y = {}
    /\ df_value = EmptyTable
    /\ df_none = EmptyTable
    /\ thr = NoThresholds
    /\ files = NoFiles
    /\ runs = 1
    /\ prev = [thr |-> NoThresholds, value |-> EmptyTable]
    /\ stage = "gui"
    /\ inputs = NoInputs
    /\ log = {}
    /\ seen = NotSeen
    /\ pdf = OpenReport
    /\ gui \in [input_var : Folders, output_var : Folders, input_dir : { "none" },
                 output_dir : { "none" }, returncode : { 0 }, dialog : { "none" }]

\* run_analysis_gui.py lines 61-80 and combined.py lines 16-96: Run Analysis
\* starts combined.py with the arguments [output_dir, input_dir]; combined.py
\* takes the first argument as its input folder and the second as its output
\* folder.  The process is new; the folders keep their files, and the input
\* files may have been replaced since the last run.
Launch ==
    /\ stage \in { "gui", "reported" }
    /\ stage = "reported" => runs < MaxRuns
    /\ runs' = IF stage = "reported" THEN runs + 1 ELSE runs
    /\ gui' = [gui EXCEPT !.input_dir = gui.output_var,
                           !.output_dir = gui.input_var,
                           !.returncode = 0,
                           !.dialog = "none"]
    /\ \E d \in [persona : PersonaInputs, campaign : CampaignInputs,
                  church : ChurchInputs] :
           inputs' = IF gui.output_var = "data" THEN d ELSE NoInputs
    /\ pc' = "idle"
    /\ rule' = 0
    /\ account' = EmptyTable
    /\ y' = {}
    /\ df_value' = EmptyTable
    /\ df_none' = EmptyTable
    /\ thr' = NoThresholds
    /\ stage' = "persona"
    /\ log' = {}
    /\ seen' = NotSeen
    /\ pdf' = OpenReport
    /\ UNCHANGED << clock, opp, files, prev >>

\* run_analysis_gui.py lines 81-89: after combined.py has ended the GUI looks
\* for error_summary.txt in the folder selected as output, then at the return
\* code (not 0 after a SystemExit with a message), and shows one dialog.
Report ==
    /\ stage = "end"
    /\ LET code == IF "church: SystemExit" \in log THEN 1 ELSE 0
           found == /\ gui.output_var = gui.output_dir
                    /\ "error_summary" \in files.written
       IN  gui' = [gui EXCEPT !.returncode = code,
                              !.dialog = IF found THEN "errors"
                                         ELSE IF code = 0 THEN "success"
                                         ELSE "script_error"]
    /\ stage' = "reported"
    /\ UNCHANGED << clock, opp, pc, rule, account, y, df_value, df_none, thr,
                    files, runs, prev, inputs, log, seen, pdf >>

NextGui ==
    \/ Launch
    \/ NextPass
    \/ Report

SpecGui == InitGui /\ [][NextGui]_vars

\* ================================================================= claims
\* The accounts with amount_total > 0, read from the summary table.
ValuedIds == { id \in DOMAIN account : account[id].amount_total > 0 }

\* The six masked assignments have been applied.
Settled == pc \in { "classified", "filtered", "grouped", "written", "done" }

\* The output files of this run are on disk.
Emitted == pc \in { "written", "done" }

\* The number of rows of a table that carry persona p.
CountOf(t, p) == Cardinality({ id \in DOMAIN t : t[id].persona = p })

\* The rule table as the specification states it: the k-th condition on
\* amount_total A and dormancy_years D, for thresholds q33, q67 and median m.
StatedRule(k, A, D, q33, q67, m) ==
    CASE k = 1 -> GeQ(A, q67) /\ LtQ(D, m)
      [] k = 2 -> LeQ(A, q33) /\ LtQ(D, m)
      [] k = 3 -> GtQ(A, q33) /\ LtQ(A, q67) /\ LtQ(D, m)
      [] k = 4 -> GeQ(A, q67) /\ GeQ(D, m)
      [] k = 5 -> GtQ(A, q33) /\ LtQ(A, q67) /\ GeQ(D, m)
      [] k = 6 -> LeQ(A, q33) /\ GeQ(D, m)

StatedPersona(k) ==
    CASE k = 1 -> "Gary" [] k = 2 -> "Yara" [] k = 3 -> "Ryan"
      [] k = 4 -> "Laura" [] k = 5 -> "Peter" [] k = 6 -> "Beth"

\* The rules among the first r that the row of account id satisfies.
Matching(id, r) ==
    { k \in 1 .. r :
        StatedRule(k, df_value[id].amount_total, df_value[id].dormancy_years,
                   thr.q33, thr.q67, thr.median) }

\* C1 (partition completeness): after the six assignments every account with
\* amount_total > 0 carries one of the six personas, and the six persona
\* counts of the emitted valued-account output sum to the number of accounts
\* with amount_total > 0.
C1_PartitionComplete ==
    /\ pc = "classified" =>
           \A id \in ValuedIds :
               id \in DOMAIN df_value /\ df_value[id].persona \in Personas
    /\ Emitted =>
           SumOver([k \in 1 .. 6 |-> CountOf(files.value, StatedPersona(k))],
                   1 .. 6) = Cardinality(ValuedIds)

\* C2 (ordered rules, last match wins): while and after the rules are applied,
\* the persona of a valued account that satisfies one of the rules applied so
\* far is the persona of the last of them in the stated order; a later
\* matching rule overwrites the persona an earlier one set.
C2_LastMatchWins ==
    pc \in { "classify", "classified" } =>
        \A id \in DOMAIN df_value :
            Matching(id, rule) # {} =>
                df_value[id].persona = StatedPersona(SetMax(Matching(id, rule)))

\* An account that satisfies the Gary rule and the Yara rule, after all six
\* assignments.
C2_Witness ==
    /\ pc = "classified"
    /\ \E id \in DOMAIN df_value :
           /\ {1, 2} \subseteq Matching(id, 6)
           /\ df_value[id].persona = "Yara"

\* All valued accounts share one amount_total.
Degenerate ==
    /\ ValuedIds # {}
    /\ \A i \in ValuedIds : \A j \in ValuedIds :
           account[i].amount_total = account[j].amount_total

\* C3 (degenerate distribution): when all valued accounts share the same
\* amount_total, q33 and q67 equal it, every account below the dormancy median
\* ends as Yara and every account at or above it ends as Beth.
C3_DegenerateTieBreak ==
    (Settled /\ Degenerate) =>
        \A id \in ValuedIds :
            /\ thr.q33 = thr.q67
            /\ thr.q33.n = account[id].amount_total * thr.q33.d
            /\ LtQ(account[id].dormancy_years, thr.median) =>
                   id \in DOMAIN df_value /\ df_value[id].persona = "Yara"
            /\ GeQ(account[id].dormancy_years, thr.median) =>
                   id \in DOMAIN df_value /\ df_value[id].persona = "Beth"

\* Two accounts with the same amount_total, one ending as Yara, one as Beth.
C3_Witness ==
    /\ Settled
    /\ Degenerate
    /\ \E i \in DOMAIN df_value : df_value[i].persona = "Yara"
    /\ \E j \in DOMAIN df_value : df_value[j].persona = "Beth"

\* The number of valued accounts whose column c is below v, and at most v.
Below(c, v) == Cardinality({ id \in ValuedIds : account[id][c] < v })
UpTo(c, v) == Cardinality({ id \in ValuedIds : account[id][c] <= v })

\* The k-th order statistic (k = 0 is the smallest) of column c over the
\* valued accounts, found by counting.
OrderStat(c, k) ==
    CHOOSE v \in { account[id][c] : id \in ValuedIds } :
        Below(c, v) <= k /\ k < UpTo(c, v)

\* The p-th percentile of amount_total over the valued accounts, times 100:
\* the point at position p*(n-1)/100 on the line through the two order
\* statistics around it.
StatedQuantile100(p) ==
    LET n == Cardinality(ValuedIds)
        k == (p * (n - 1)) \div 100
        g == (p * (n - 1)) % 100
        lo == OrderStat("amount_total", k)
        hi == OrderStat("amount_total", IF k + 1 < n THEN k + 1 ELSE k)
    IN  100 * lo + g * (hi - lo)

\* The boundary example: exactly three valued accounts, one positive gift
\* each, of 100, 500 and 5000.
ThreeAmounts ==
    /\ \A id \in ValuedIds : Len(RowsOf(opp, id)) = 1
    /\ Cardinality(ValuedIds) = 3
    /\ { account[id].amount_total : id \in ValuedIds } = { 100, 500, 5000 }

\* The thresholds have been computed.
Measured == pc \in { "classify" } \cup { "classified", "filtered", "grouped", "written", "done" }

\* The persona with which account id stands in the valued-account output.
EmittedPersona(id) ==
    IF id \in DOMAIN files.value THEN files.value[id].persona ELSE "none"

StatedMedian2 ==
    LET n == Cardinality(ValuedIds)
    IN  OrderStat("dormancy_years", (n - 1) \div 2)
        + OrderStat("dormancy_years", n \div 2)

\* Three valued accounts with dormancy 1, 3 and 5.
ThreeDormancies ==
    /\ Cardinality(ValuedIds) = 3
    /\ { account[id].dormancy_years : id \in ValuedIds } = { 1, 3, 5 }

HighDormancy == { "Laura", "Peter", "Beth" }

\* C6 (median boundary): a valued account whose dormancy_years equals the
\* dormancy median is assigned Laura, Peter or Beth, never Gary, Yara or Ryan;
\* with dormancies 1, 3 and 5 the median is 3.
C6_MedianBoundary ==
    Settled =>
        /\ \A id \in ValuedIds :
               2 * account[id].dormancy_years = StatedMedian2 =>
                   /\ id \in DOMAIN df_value
                   /\ df_value[id].persona \in HighDormancy
        /\ ThreeDormancies => thr.median.n = 3 * thr.median.d /\ thr.median.d > 0

\* Dormancies 1, 3 and 5: the account with dormancy 3 has a high-dormancy
\* persona.
C6_Witness ==
    /\ Settled
    /\ ThreeDormancies
    /\ \E id \in DOMAIN df_value :
           /\ df_value[id].dormancy_years = 3
           /\ df_value[id].persona \in HighDormancy

\* Some account with amount_total > 0 is left without a persona by the six
\* assignments.
Unclassified ==
    /\ Settled
    /\ \E id \in ValuedIds :
           id \notin DOMAIN df_value \/ df_value[id].persona \notin Personas

\* C7 (unclassified account is fatal): when an account with amount_total > 0
\* has no persona after the six rules, the run does not write the
\* valued-account output and does not end with success.
C7_UnclassifiedIsFatal ==
    Unclassified => pc # "done" /\ "value" \notin files.written

\* C8 (valued/potential partition): when the run has ended, every account with
\* a gift record is in exactly one of the valued-account output and the
\* potential-account output, the first for amount_total > 0, the second for
\* amount_total <= 0.
C8_ValuedPotentialPartition ==
    pc = "done" =>
        \A id \in DOMAIN account :
            /\ (id \in DOMAIN files.value) # (id \in DOMAIN files.potential)
            /\ (id \in DOMAIN files.value) <=> (account[id].amount_total > 0)

\* The colour group the rule table pairs with a persona.
StatedGroup(p) ==
    CASE p = "Gary" -> "Gold"
      [] p = "Yara" -> "Light Blue"
      [] p = "Ryan" -> "Green"
      [] p = "Laura" -> "Purple"
      [] p = "Peter" -> "Dark Blue"
      [] p = "Beth" -> "Red"
      [] OTHER -> "none"

\* C9 (persona/group pairing): every row of the valued-account output carries
\* one of the six personas and the colour group paired with it.
C9_PersonaGroupPairing ==
    "value" \in files.written =>
        \A id \in DOMAIN files.value :
            /\ files.value[id].persona \in Personas
            /\ files.value[id].group = StatedGroup(files.value[id].persona)

\* An output with three rows of three personas, Beth among them.
C9_Witness ==
    /\ "value" \in files.written
    /\ Cardinality({ files.value[id].persona : id \in DOMAIN files.value }) = 3
    /\ \E id \in DOMAIN files.value : files.value[id].group = "Red"

DonatedYears(id) == { w \in Window(clock) : TimesDonated(opp, id, w) > 0 }

\* The records of the recency table that belong to account id.
RecencyOf(id) == { r \in y : r.AccountId = id }

\* C11 (recency sum): the recency table holds, for each account with a
\* positive gift in the window, one record whose last_5_non0_years is the
\* number of years of the window [clock - 5, clock] in which the account has a
\* positive gift (3 for gifts in clock, clock - 2 and clock - 4).
C11_RecencySum ==
    \A id \in { opp[i].AccountId : i \in DOMAIN opp } :
        (y # {} /\ DonatedYears(id) # {}) =>
            /\ Cardinality(RecencyOf(id)) = 1
            /\ \A r \in RecencyOf(id) :
                   r.last_5_non0_years = Cardinality(DonatedYears(id))

\* C12 (recency bound): every record of the recency table has
\* last_5_non0_years between 0 and 6 and every donated flag 0 or 1; the flag
\* of a year without a gift of the account is 0, not a missing value.
C12_RecencyBound ==
    \A r \in y :
        /\ 0 <= r.last_5_non0_years /\ r.last_5_non0_years <= 6
        /\ \A w \in Window(clock) :
               /\ r.flag_donated[w] \in { 0, 1 }
               /\ TimesDonated(opp, r.AccountId, w) = 0 => r.flag_donated[w] = 0

\* The recency table has been built and holds a record of an account of the
\* bounded table with a flag of 1 and, for a year in which the account has no
\* gift, a flag of 0.
C12_Witness ==
    /\ pc = "recency"
    /\ \E r \in y :
           /\ r.AccountId \in Ids
           /\ \E w \in Window(clock) : r.flag_donated[w] = 1
           /\ \E w \in Window(clock) :
                  TimesDonated(opp, r.AccountId, w) = 0 /\ r.flag_donated[w] = 0

\* The account ids of the gift table.
GiftIds == { opp[i].AccountId : i \in DOMAIN opp }

\* The summary table has been built.
Aggregated == pc # "start"

\* account_age, dormancy_years and the averages have been added to it.
Featured ==
    pc \in { "features", "classify", "classified", "filtered", "grouped",
             "written", "done" }

\* The gift records of account id closed in year yr.
GiftsIn(id, yr) == SelectSeq(RowsOf(opp, id), LAMBDA r : r.Close_Year = yr)

\* The number of gift records of a list with a positive amount.
Positives(rows) == Len(SelectSeq(rows, LAMBDA r : r.Amount > 0))

\* The yearly fields of a summary row as stated: count (of the records or of
\* the positive ones), total and mean of the records of one year, and zero or
\* undefined when there is none.
StatedYearly(count, total, mean, rows) ==
    IF rows = << >>
    THEN /\ count \in { 0, NaN }
         /\ total \in { 0, NaN }
         /\ IsNaNQ(mean) \/ mean.n = 0
    ELSE /\ count \in { Len(rows), Positives(rows) }
         /\ total = SeqSum(Column(rows, "Amount"))
         /\ mean.d > 0
         /\ mean.n * Len(rows) = total * mean.d

\* C16 (as-of-relative yearly aggregates): every account of the gift table has
\* a summary row, its this_year_* fields are the aggregates of its records
\* closed in the as-of year and its prev_year_* fields those of the year
\* before; without such a record the fields are zero or undefined.
C16_YearlyAggregates ==
    Aggregated =>
        \A id \in GiftIds :
            /\ id \in DOMAIN account
            /\ StatedYearly(account[id].this_year_non_zero_counts,
                            account[id].this_year_amount_total,
                            account[id].this_year_amount_mean,
                            GiftsIn(id, clock))
            /\ StatedYearly(account[id].prev_year_non_zero_counts,
                            account[id].prev_year_amount_total,
                            account[id].prev_year_amount_mean,
                            GiftsIn(id, clock - 1))

\* The two averages of a row are finite numbers.
FiniteAverages(r) ==
    r.average_total_donation.d > 0 /\ r.average_time_between_donation.d > 0

\* C17 (zero account age): the averages of an account whose start_year is the
\* as-of year (account_age 0) are finite, in the summary table and in the
\* valued-account and potential-account outputs.
C17_ZeroAccountAge ==
    Featured =>
        /\ \A id \in DOMAIN account :
               account[id].account_age = 0 => FiniteAverages(account[id])
        /\ \A id \in DOMAIN files.value :
               files.value[id].account_age = 0 => FiniteAverages(files.value[id])
        /\ \A id \in DOMAIN files.potential :
               files.potential[id].account_age = 0 =>
                   FiniteAverages(files.potential[id])

\* C18 (non-negative age): the account_age and the dormancy_years of every
\* summary row, where defined, are at least 0, also for gift records closed
\* after the as-of year.
C18_NonNegativeAge ==
    Featured =>
        \A id \in DOMAIN account :
            /\ IsNaN(account[id].account_age) \/ account[id].account_age >= 0
            /\ IsNaN(account[id].dormancy_years)
                   \/ account[id].dormancy_years >= 0

\* C19 (aggregation): the summary table has one row per account id of the gift
\* table; amount_min, amount_max, amount_mean and amount_total are taken over
\* all records of the account and non_zero_counts is the number of its records
\* with a positive amount.
C19_Aggregation ==
    Aggregated =>
        /\ DOMAIN account = GiftIds
        /\ \A id \in GiftIds :
               LET rows == RowsOf(opp, id)
                   amounts == Range(Column(rows, "Amount"))
               IN  /\ account[id].amount_min = SetMin(amounts)
                   /\ account[id].amount_max = SetMax(amounts)
                   /\ account[id].amount_total = SeqSum(Column(rows, "Amount"))
                   /\ account[id].amount_mean.d > 0
                   /\ account[id].amount_mean.n * Len(rows)
                          = account[id].amount_total * account[id].amount_mean.d
                   /\ account[id].non_zero_counts = Positives(rows)

\* The rows of the merged roster output that belong to roster account r.
MergedOf(r) == { i \in DOMAIN files.merge : files.merge[i].Id = r }

\* C20 (merged roster): the merged roster output holds every row of the
\* account roster exactly once; a roster account with a row in the
\* valued-account output carries the summary, persona and group of that row,
\* every other roster account has null summary and persona fields, and the
\* roster accounts without gifts or with amount_total <= 0 are among these.
C20_MergedRoster ==
    "merge" \in files.written =>
        /\ Len(files.merge) = Len(RosterRows)
        /\ \A r \in Roster :
               /\ Cardinality(MergedOf(r)) = 1
               /\ \A i \in MergedOf(r) :
                      IF r \in DOMAIN files.value
                      THEN /\ files.merge[i].amount_total
                                 = files.value[r].amount_total
                           /\ files.merge[i].persona = files.value[r].persona
                           /\ files.merge[i].group = files.value[r].group
                      ELSE /\ IsNaN(files.merge[i].amount_total)
                           /\ files.merge[i].persona = "NaN"
                           /\ files.merge[i].group = "NaN"
               /\ (r \notin GiftIds \/ account[r].amount_total <= 0) =>
                      r \notin DOMAIN files.value

\* A merged roster with a row that carries a persona, the null row of an
\* account without gifts and the null row of an account with amount_total <= 0.
C20_Witness ==
    /\ "merge" \in files.written
    /\ \E i \in DOMAIN files.merge : files.merge[i].persona \in Personas
    /\ \E i \in DOMAIN files.merge :
           /\ files.merge[i].Id \notin GiftIds
           /\ files.merge[i].persona = "NaN"
    /\ \E i \in DOMAIN files.merge :
           /\ files.merge[i].Id \in DOMAIN files.potential
           /\ files.merge[i].persona = "NaN"

\* The pass of combined.py has ended.
PassEnded == stage = "end"

Modules == { "persona", "campaign", "church" }

\* The inputs of module m were validated in this pass, with either result.
Validated(m) ==
    \/ (m \o ": validated") \in log
    \/ (m \o ": skipped") \in log

\* The processing of module m was called in this pass.
Ran(m) ==
    \/ m = "persona" /\ pc # "idle"
    \/ m # "persona" /\ (m \o ": started") \in log

\* The validation of module m succeeds on the inputs of this pass.
ValidFor(m) ==
    CASE m = "persona" -> inputs.persona
      [] m = "campaign" -> inputs.campaign # "invalid"
      [] m = "church" -> inputs.church # "invalid"

\* Module m failed in this pass: its validation returned false, or its
\* processing raised an exception or SystemExit.
Failed(m) ==
    \/ (m \o ": skipped") \in log
    \/ (m \o ": failed") \in log
    \/ (m \o ": SystemExit") \in log

\* C13 (missing-column abort): in a pass whose accounts file lacks
\* npo02__LastCloseDate__c the persona module is stopped before any
\* aggregation with an error that names the column, none of its output files
\* is written, and the campaign and the church analysis are validated and,
\* their inputs being valid, run in the same pass.
C13_MissingColumnAbort ==
    (PassEnded /\ ~inputs.persona) =>
        /\ pc = "idle" /\ account = EmptyTable
        /\ "persona: d4g_account.csv is missing npo02__LastCloseDate__c" \in log
        /\ files.written \cap PersonaOutputs = {}
        /\ \A m \in { "campaign", "church" } :
               Validated(m) /\ (ValidFor(m) => Ran(m))

\* C14 (failure isolation): when a pass has ended, the campaign and the church
\* analysis have been attempted in it (validated and, their inputs being
\* valid, run), whether or not the persona module or any earlier module
\* failed.
C14_FailureIsolation ==
    PassEnded =>
        \A m \in { "campaign", "church" } :
            Validated(m) /\ (ValidFor(m) => Ran(m))

\* C15 (failure recording): when a pass has ended and a module failed in it,
\* error_summary.txt is in the output folder.
C15_FailureRecorded ==
    (PassEnded /\ \E m \in Modules : Failed(m)) =>
        "error_summary" \in files.written

\* The percentile columns have been added to the valued accounts.
Ranked == pc \in { "classify", "classified" }

\* The rank as stated: the fraction of the valued accounts with a value whose
\* value in column c is lower than or equal to that of account id.
StatedRank(r, c, id) ==
    LET live == { i \in DOMAIN df_value : ~IsNaN(df_value[i][c]) }
        upto == { i \in live : df_value[i][c] <= df_value[id][c] }
    IN  r.d > 0 /\ r.n * Cardinality(live) = Cardinality(upto) * r.d

\* C23 (percentile rank): for amount_total, non_zero_counts and
\* dormancy_years the rank column of a valued account with a value in the
\* field is the fraction of valued accounts whose value is lower than or
\* equal to it, ties included.
C23_PercentileRank ==
    Ranked =>
        \A id \in DOMAIN df_value :
            /\ StatedRank(df_value[id].amount_total_percentiles,
                          "amount_total", id)
            /\ IsNaN(df_value[id].non_zero_counts)
                   \/ StatedRank(df_value[id].non_zero_counts_percentiles,
                                 "non_zero_counts", id)
            /\ IsNaN(df_value[id].dormancy_years)
                   \/ StatedRank(df_value[id].dormancy_years_percentiles,
                                 "dormancy_years", id)

\* The as-of year of the recency table: the latest year of its flag columns.
RecencyYear(r) == SetMax(DOMAIN r.flag_donated)

\* C29 (one as-of year per run): for every account with close dates,
\* account_age and dormancy_years are taken from the same as-of year, so that
\* account_age - dormancy_years = latest_year - start_year, and that year is
\* the as-of year of the recency window, also when the wall-clock year changes
\* during the run.
C29_OneAsOfYear ==
    Featured =>
        \A id \in DOMAIN account :
            IsNaN(account[id].start_year) \/
                /\ account[id].account_age - account[id].dormancy_years
                       = account[id].latest_year - account[id].start_year
                /\ \A r \in y :
                       account[id].account_age + account[id].start_year
                           = RecencyYear(r)

\* The accounts with amount_total <= 0, read from the summary table.
PotentialIds == { id \in DOMAIN account : account[id].amount_total <= 0 }

\* The gift table without the records of the accounts of P.
Without(P) == SelectSeq(opp, LAMBDA r : r.AccountId \notin P)

PersonaFrom(A, D, id) ==
    LET q33 == Quantile(SortedValues(A, DOMAIN A), 33)
        q67 == Quantile(SortedValues(A, DOMAIN A), 67)
        m == Median(SortedValues(D, DOMAIN D))
        K == { k \in 1 .. 6 : StatedRule(k, A[id], D[id], q33, q67, m) }
    IN  IF K = {} THEN "NaN" ELSE StatedPersona(SetMax(K))

C30_ReportClosedOnce ==
    /\ PassEnded => pdf = [closes |-> 1, shutdowns |-> 1]
    /\ ~PassEnded => pdf = OpenReport

\* A pass ended by the SystemExit of the church analysis, after the persona
\* and the campaign analysis completed.
C30_Witness ==
    /\ PassEnded
    /\ "church: SystemExit" \in log
    /\ "campaign: completed" \in log
    /\ pdf.closes = 1

\* The AccountId and persona columns of the valued accounts of this run.
PersonaColumn == [id \in DOMAIN df_value |-> df_value[id].persona]

\* C21 (cross-module contract): in a pass where the persona analysis
\* completes, the campaign analysis that runs to its end reads the valued-
\* account output, and what any campaign analysis reads is the complete
\* output of this pass: one row for every valued account, each with its
\* AccountId and one of the six personas.
C21_ValueOutputBeforeCampaign ==
    "persona: completed" \in log =>
        /\ "campaign: completed" \in log => seen.read
        /\ seen.read =>
              /\ seen.rows = PersonaColumn
              /\ DOMAIN seen.rows # {}
              /\ \A id \in DOMAIN seen.rows : seen.rows[id] \in Personas

\* The campaign analysis completed after the persona analysis and merged the
\* personas of two or more valued accounts.
C21_Witness ==
    /\ "persona: completed" \in log
    /\ "campaign: completed" \in log
    /\ seen.read
    /\ Cardinality(DOMAIN seen.rows) >= 2

\* C28 (no state carried between runs): the persona data the campaign analysis
\* merges in a run is the valued-account output the persona analysis of that
\* same run wrote; in a run where the persona analysis is skipped or fails,
\* the campaign analysis merges no d4g_value_output.csv of an earlier run.
C28_NoStalePersonas ==
    seen.read =>
        /\ "persona: completed" \in log
        /\ seen.rows = PersonaColumn

\* C25 (GUI folder wiring): when the GUI has launched the pipeline, the folder
\* selected as input is the folder combined.py reads its input files from and
\* the folder selected as output is the folder combined.py writes to.
C25_FolderWiring ==
    stage \notin { "gui" } =>
        /\ gui.input_dir = gui.input_var
        /\ gui.output_dir = gui.output_var

\* Every analysis of the pass has been validated, run and has completed.
AllCompleted ==
    \A m \in Modules : (m \o ": completed") \in log

\* C26 (GUI success is truthful): the dialog 'Analysis completed successfully'
\* is shown only for a run in which the persona, the campaign and the church
\* analysis were all executed and completed; never for a run in which a module
\* was skipped or raised.
C26_TruthfulSuccess ==
    gui.dialog = "success" => AllCompleted

\* C27 (no stale error report): the dialog 'Analysis completed with errors' is
\* shown only if the run just launched recorded an error; an error_summary.txt
\* of an earlier run into the same output folder does not make a later run
\* without errors be reported as failed.
C27_NoStaleErrorReport ==
    gui.dialog = "errors" => "Critical error" \in log

====
